---- MODULE Spec2Model ----
(***************************************************************************)
(* Model of the resilient fetch layer of shopifyscraper                    *)
(* (src/shopifyscraper/core.py, class ShopifyScraperSkeleton):             *)
(* scrape_all_products, _get_page_with_retries, _request and the proxy     *)
(* helpers.  One scraper object; its methods run one at a time (the code   *)
(* is single-threaded).  A run of scrape_all_products is split at the      *)
(* points where it talks to the outside world: each HTTP request is one    *)
(* step whose outcome the environment picks.  The wall clock (time.time()) *)
(* is the variable now, advanced by Tick.                                  *)
(*                                                                         *)
(* Status classes: 503 stands for 502/503/504, 500 for the other 5xx,      *)
(* 404 for every status that is neither 200, 429 nor 5xx.  A transport     *)
(* failure (requests.RequestException, ProxyError included) is the         *)
(* outcome with status TransportError.  Bodies of 200 responses are JSON   *)
(* objects: with or without the key "products".                            *)
(***************************************************************************)
EXTENDS Integers, Sequences, FiniteSets, TLC

\* ---------------------------------------------------------------- bounds
MaxPagesBound == 3
MaxRetriesBound == 3
MaxTime == 3

\* ------------------------------------------------- configuration values
\* proxy_cooldown and backoff_factor are constructor arguments (floats in
\* the code); the model fixes one value of each, in clock ticks / sleep units.
proxy_cooldown == 1
backoff_factor == 3

Proxies == {"p1", "p2"}
None == "None"
Direct == "direct"
TransportError == -1

\* The product array a non-empty page n carries (records are opaque to the
\* code; numbers name them, all distinct, so that order, loss and
\* duplication show in the result).
Payload(n) == <<2 * n - 1, 2 * n>>

VARIABLES
    \* configuration and proxy pool (fields of the scraper object)
    raw_proxies, rotate_proxies, proxy_cycle,
    proxy_blacklist, proxy_fail_counts,
    max_pages, max_retries,
    \* the rotate_proxies argument the constructor was called with
    rotate_requested,
    \* the clock read by time.time()
    now,
    \* position and locals of the running scrape_all_products call
    pc, page, attempt, proxies_tried, all_products,
    \* history of the current run (observations only, never read by the code)
    fetched, sleeps, failed, lastReq, callVia, clean, delays, nfetch, why,
    reqAllBl, lastResult, lastCheck

vars == <<raw_proxies, rotate_proxies, proxy_cycle, proxy_blacklist,
          proxy_fail_counts, max_pages, max_retries, rotate_requested, now, pc,
          page, attempt,
          proxies_tried, all_products, fetched, sleeps, failed, lastReq, callVia,
          clean, delays, nfetch, why, reqAllBl, lastResult, lastCheck>>

config == <<max_pages, max_retries, rotate_requested>>
pool == <<raw_proxies, rotate_proxies, proxy_cycle>>
health == <<proxy_blacklist, proxy_fail_counts>>
locals == <<page, attempt, proxies_tried, all_products>>
hist == <<fetched, sleeps, failed, lastReq, callVia, clean, delays, nfetch, why,
          reqAllBl, lastResult, lastCheck>>

\* ------------------------------------------------------------ responses
Response(s, has, prods) == [status |-> s, has |-> has, products |-> prods]

\* What the server may answer to a request for page n.
Responses(n) ==
    {Response(200, TRUE, Payload(n)), Response(200, TRUE, <<>>),
     Response(200, FALSE, <<>>)}
    \cup {Response(s, FALSE, <<>>) : s \in {404, 429, 500, 503}}

\* How one HTTP request for page n may end: a response or a transport failure.
Outcomes(n) == Responses(n) \cup {Response(TransportError, FALSE, <<>>)}

\* What _request hands to _get_page_with_retries when it returns None.
NoResp == Response(TransportError, FALSE, <<>>)

RECURSIVE Concat(_)
Concat(ss) == IF ss = <<>> THEN <<>> ELSE Head(ss) \o Concat(Tail(ss))

Range(s) == {s[i] : i \in 1..Len(s)}

\* ------------------------------------------------------- proxy helpers
\* Variant of IsBlacklisted that lets the entry lapse at the cooldown instant.
IsBlacklistedUntil(k, bl, t) == bl[k] # 0 /\ ~(t - bl[k] >= proxy_cooldown)

\* Variant of IsBlacklisted with the expiry comparison the wrong way round.
IsBlacklistedInverted(k, bl, t) ==
    IF bl[k] = 0 THEN FALSE
    ELSE IF t - bl[k] < proxy_cooldown THEN FALSE
    ELSE TRUE

\* _is_blacklisted: the value returned for key k at time t.
IsBlacklisted(k, bl, t) ==
    IF bl[k] = 0 THEN FALSE
    ELSE IF t - bl[k] > proxy_cooldown THEN FALSE
    ELSE TRUE

\* _is_blacklisted: the maps after the call (an expired entry is popped from
\* both maps).
ExpireBl(k, bl, t) ==
    IF bl[k] # 0 /\ t - bl[k] > proxy_cooldown THEN [bl EXCEPT ![k] = 0] ELSE bl

\* Variant of ExpireFc that leaves the failure count in place on expiry.
ExpireFcKept(k, bl, fc, t) == fc

ExpireFc(k, bl, fc, t) ==
    IF bl[k] # 0 /\ t - bl[k] > proxy_cooldown THEN [fc EXCEPT ![k] = 0] ELSE fc

\* _record_proxy_failure
FailThreshold == 2

RecordFailureFc(k, fc) == [fc EXCEPT ![k] = fc[k] + 1]

\* Variant of RecordFailureBl that blacklists one failure too late.
RecordFailureBlLate(k, bl, fc, t) ==
    IF fc[k] + 1 > FailThreshold THEN [bl EXCEPT ![k] = t] ELSE bl

RecordFailureBl(k, bl, fc, t) ==
    IF fc[k] + 1 >= FailThreshold THEN [bl EXCEPT ![k] = t] ELSE bl

\* Variant of RecordSuccessFc that forgets to reset the count.
RecordSuccessFcKept(k, fc) == fc

\* _request, a response other than 502/503/504:
\* self._proxy_fail_counts.pop(proxy_key, None)
RecordSuccessFc(k, fc) == [fc EXCEPT ![k] = 0]

\* Variant of Pop that leaves the entry in place.
PopNothing(m, k) == m

\* remove_proxy: dict.pop(key, None)
Pop(m, k) == [m EXCEPT ![k] = 0]

\* _get_next_proxy with rotation: up to n more draws from the cycle.
RECURSIVE RotateFrom(_, _, _, _, _, _)
RotateFrom(n, raw, cyc, bl, fc, t) ==
    IF n = 0
    THEN [p |-> None, cyc |-> cyc, bl |-> bl, fc |-> fc]
    ELSE LET p == raw[cyc + 1]
             cyc2 == (cyc + 1) % Len(raw)
             bl2 == ExpireBl(p, bl, t)
             fc2 == ExpireFc(p, bl, fc, t)
         IN  IF ~IsBlacklisted(p, bl, t)
             THEN [p |-> p, cyc |-> cyc2, bl |-> bl2, fc |-> fc2]
             ELSE RotateFrom(n - 1, raw, cyc2, bl2, fc2, t)

\* Variant of GetNextProxy with the rotation test negated.
GetNextProxyInverted(raw, rot, cyc, bl, fc, t) ==
    IF raw = <<>> THEN [p |-> None, cyc |-> cyc, bl |-> bl, fc |-> fc]
    ELSE IF rot THEN [p |-> raw[1], cyc |-> cyc, bl |-> bl, fc |-> fc]
    ELSE RotateFrom(Len(raw), raw, cyc, bl, fc, t)

\* Variant of GetNextProxy that draws one proxy too few from the cycle.
GetNextProxyShort(raw, rot, cyc, bl, fc, t) ==
    IF raw = <<>> THEN [p |-> None, cyc |-> cyc, bl |-> bl, fc |-> fc]
    ELSE IF ~rot THEN [p |-> raw[1], cyc |-> cyc, bl |-> bl, fc |-> fc]
    ELSE RotateFrom(Len(raw) - 1, raw, cyc, bl, fc, t)

\* _get_next_proxy
GetNextProxy(raw, rot, cyc, bl, fc, t) ==
    IF raw = <<>> THEN [p |-> None, cyc |-> cyc, bl |-> bl, fc |-> fc]
    ELSE IF ~rot THEN [p |-> raw[1], cyc |-> cyc, bl |-> bl, fc |-> fc]
    ELSE RotateFrom(Len(raw), raw, cyc, bl, fc, t)

AllBlacklisted(raw, bl, t) ==
    raw # <<>> /\ \A i \in 1..Len(raw) : IsBlacklisted(raw[i], bl, t)

\* Observation: at time t the cooldown of k's blacklisting has not elapsed.
CoolingDown(k, bl, t) == bl[k] # 0 /\ t - bl[k] < proxy_cooldown

\* ------------------------------------------------------------- events
\* One HTTP request: the page asked for, the proxy it went through (or
\* Direct), the outcome, the attempt it belongs to, and whether the proxy's
\* cooldown was still running when it was sent.
ReqEvent(via, o, blk) ==
    [page |-> page, via |-> via, status |-> o.status, has |-> o.has,
     attempt |-> attempt, blk |-> blk]

NoReq ==
    [page |-> 0, via |-> None, status |-> 0, has |-> FALSE, attempt |-> 0,
     blk |-> FALSE]

\* ------------------------------------------------------------ Init
NoHealth == [p \in Proxies |-> 0]

\* The candidate of the current _request turn (the local "proxy") with what
\* the first _is_blacklisted call on it saw and answered: the age of its
\* blacklist entry (-1 without one) and the verdict.
Check(k, bl, t) ==
    [p |-> k,
     age |-> IF bl[k] = 0 THEN -1 ELSE t - bl[k],
     blocked |-> IsBlacklisted(k, bl, t)]

\* No candidate: outside _request, or _get_next_proxy returned None.
NoCheck == [p |-> None, age |-> -1, blocked |-> FALSE]

Init ==
    /\ raw_proxies \in {<<>>, <<"p1">>, <<"p1", "p2">>}
    /\ rotate_requested \in BOOLEAN
    /\ rotate_proxies = (rotate_requested /\ raw_proxies # <<>>)
    /\ proxy_cycle = 0
    /\ proxy_blacklist = NoHealth
    /\ proxy_fail_counts = NoHealth
    /\ max_pages \in 1..MaxPagesBound
    /\ max_retries \in 0..MaxRetriesBound
    /\ now = 1
    /\ pc = "idle"
    /\ page = 1
    /\ attempt = 0
    /\ proxies_tried = 0
    /\ all_products = <<>>
    /\ fetched = <<>>
    /\ sleeps = <<>>
    /\ failed = {}
    /\ lastReq = NoReq
    /\ callVia = <<>>
    /\ clean = TRUE
    /\ delays = 0
    /\ nfetch = 0
    /\ why = ""
    /\ reqAllBl = FALSE
    /\ lastResult = "none"
    /\ lastCheck = NoCheck

NoHistory ==
    /\ fetched' = <<>>
    /\ sleeps' = <<>>
    /\ failed' = {}
    /\ lastReq' = NoReq
    /\ callVia' = <<>>
    /\ clean' = TRUE
    /\ delays' = 0
    /\ nfetch' = 0
    /\ why' = ""
    /\ reqAllBl' = FALSE
    /\ lastResult' = "none"
    /\ lastCheck' = NoCheck

\* ------------------------------------------------ public proxy utilities
\* add_proxy
AddProxy(p) ==
    /\ pc = "idle"
    /\ Len(raw_proxies) < Cardinality(Proxies)
    /\ raw_proxies' = Append(raw_proxies, p)
    /\ proxy_cycle' = 0
    /\ UNCHANGED <<rotate_proxies, health, config, now, pc, locals, hist>>

\* remove_proxy
RemoveProxy(p) ==
    /\ pc = "idle"
    /\ raw_proxies' = SelectSeq(raw_proxies, LAMBDA q : q # p)
    /\ proxy_cycle' = 0
    /\ proxy_blacklist' = Pop(proxy_blacklist, p)
    /\ proxy_fail_counts' = Pop(proxy_fail_counts, p)
    /\ UNCHANGED <<rotate_proxies, config, now, pc, locals, hist>>

\* ------------------------------------------------- scrape_all_products
\* Variant of ContinuePaging that goes one page too far.
ContinuePagingOneMore == page <= max_pages + 1

\* "while page <= self.max_pages"
ContinuePaging == page <= max_pages

\* Variant of NextPage that skips a page.
NextPageSkipping(n) == n + 2

\* "page += 1"
NextPage(n) == n + 1

\* Variant of ContinueRetrying that allows one attempt too many.
ContinueRetryingOneMore == attempt <= max_retries

\* "while attempt < self.max_retries"
ContinueRetrying == attempt < max_retries

\* Variant of Extend that puts the new page in front.
ExtendPrepended(all, products) == products \o all

\* all_products.extend(products)
Extend(all, products) == all \o products

\* Variant of Backoff with the exponent off by one.
BackoffDoubled(a) == backoff_factor * (2 ^ a)

\* The sleep before the next attempt: backoff_factor * (2 ** (attempt - 1)).
Backoff(a) == backoff_factor * (2 ^ (a - 1))

\* Variant of IsRetryable that also retries a 200 without the products key.
IsRetryableOrNoKey(r) ==
    \/ r.status = TransportError
    \/ r.status = 429
    \/ (500 <= r.status /\ r.status < 600)
    \/ (r.status = 200 /\ ~r.has)

\* The results after which _get_page_with_retries sleeps and tries again: no
\* response (RequestException), 429, 5xx.
IsRetryable(r) ==
    \/ r.status = TransportError
    \/ r.status = 429
    \/ (500 <= r.status /\ r.status < 600)

\* Variant of UseDirect that falls back to a direct request when every
\* proxy is blacklisted.
UseDirectWhenBlacklisted ==
    raw_proxies = <<>> \/ AllBlacklisted(raw_proxies, proxy_blacklist, now)

\* _request: the outcomes counted against the proxy (502/503/504, an
\* exception); every other response counts as the proxy's success.
ProxyFailure(status) == status \in {TransportError, 503}

\* _request: "if not self._raw_proxies" (the request goes out directly).
UseDirect == raw_proxies = <<>>

\* The call begins: all_products = [], page = 1.
Start ==
    /\ pc = "idle"
    /\ pc' = "page"
    /\ page' = 1
    /\ all_products' = <<>>
    /\ attempt' = 0
    /\ proxies_tried' = 0
    /\ NoHistory
    /\ UNCHANGED <<pool, health, config, now>>

\* Head of "while page <= self.max_pages".
PageLoop ==
    /\ pc = "page"
    /\ IF ContinuePaging
       THEN /\ pc' = "attempt"
            /\ attempt' = 0
            /\ sleeps' = <<>>
            /\ failed' = {}
            /\ nfetch' = nfetch + 1
            /\ why' = why
       ELSE /\ pc' = "done"
            /\ why' = "max_pages"
            /\ UNCHANGED <<attempt, sleeps, failed, nfetch>>
    /\ UNCHANGED <<pool, health, config, now, page, proxies_tried,
                   all_products, fetched, lastReq, callVia, clean, delays,
                   reqAllBl, lastResult, lastCheck>>

\* What _get_page_with_retries and then scrape_all_products do with the
\* result r of one _request call (NoResp when it returned None).
Classify(r) ==
    /\ IF IsRetryable(r)
       THEN \* sleep the backoff, continue the retry loop
            /\ pc' = "attempt"
            /\ sleeps' = Append(sleeps, Backoff(attempt))
            /\ failed' = failed \cup {r.status}
            /\ clean' = FALSE
            /\ UNCHANGED <<page, all_products, fetched, delays, why>>
       ELSE IF r.status = 200 /\ r.has /\ r.products # <<>>
       THEN \* data returned; extend, page += 1, sleep(delay)
            /\ pc' = "page"
            /\ page' = NextPage(page)
            /\ all_products' = Extend(all_products, r.products)
            /\ fetched' = Append(fetched, [page |-> page, products |-> r.products])
            /\ delays' = delays + 1
            /\ UNCHANGED <<sleeps, failed, clean, why>>
       ELSE \* None returned (no products key, unexpected status) or empty page
            /\ pc' = "done"
            /\ why' = IF r.status # 200 THEN "status"
                      ELSE IF ~r.has THEN "nokey" ELSE "empty"
            /\ clean' = (clean /\ r.status = 200 /\ r.has)
            /\ UNCHANGED <<page, all_products, fetched, delays, sleeps, failed>>

\* Head of "while attempt < self.max_retries", up to the entry of _request.
AttemptLoop ==
    /\ pc = "attempt"
    /\ IF ContinueRetrying
       THEN /\ attempt' = attempt + 1
            /\ pc' = IF UseDirect THEN "direct" ELSE "proxy"
            /\ proxies_tried' = 0
            /\ callVia' = <<>>
            /\ reqAllBl' = AllBlacklisted(raw_proxies, proxy_blacklist, now)
            /\ lastResult' = "pending"
            /\ UNCHANGED <<why, clean>>
       ELSE /\ pc' = "done"
            /\ why' = "exhausted"
            /\ clean' = FALSE
            /\ UNCHANGED <<attempt, proxies_tried, callVia, reqAllBl, lastResult>>
    /\ UNCHANGED <<pool, health, config, now, page, all_products, fetched,
                   sleeps, failed, lastReq, delays, nfetch, lastCheck>>

\* _request with no proxy configured: one direct request.
DirectRequest ==
    /\ pc = "direct"
    /\ \E o \in Outcomes(page) :
          /\ lastResult' = IF o.status = TransportError THEN "None" ELSE "resp"
          /\ lastReq' = ReqEvent(Direct, o, FALSE)
          /\ Classify(o)
    /\ UNCHANGED <<pool, health, config, now, attempt, proxies_tried, callVia,
                   nfetch, reqAllBl, lastCheck>>

\* _request with proxies configured: one turn of
\* "while proxies_tried < max_try".
ProxyTry ==
    /\ pc = "proxy"
    /\ IF proxies_tried >= Len(raw_proxies)
       THEN \* all proxies tried and failed: return None
            /\ lastResult' = "None"
            /\ Classify(NoResp)
            /\ lastCheck' = NoCheck
            /\ UNCHANGED <<pool, health, proxies_tried, lastReq, callVia>>
       ELSE LET g == GetNextProxy(raw_proxies, rotate_proxies, proxy_cycle,
                                  proxy_blacklist, proxy_fail_counts, now)
            IN  /\ proxy_cycle' = g.cyc
                /\ UNCHANGED <<raw_proxies, rotate_proxies>>
                /\ IF g.p = None
                   THEN \* raise ProxyUnavailable
                        /\ pc' = "raised"
                        /\ why' = "proxy_unavailable"
                        /\ lastResult' = "ProxyUnavailable"
                        /\ lastCheck' = NoCheck
                        /\ proxy_blacklist' = g.bl
                        /\ proxy_fail_counts' = g.fc
                        /\ clean' = FALSE
                        /\ UNCHANGED <<page, all_products, fetched, delays,
                                       sleeps, failed, lastReq, callVia,
                                       proxies_tried>>
                   ELSE IF IsBlacklisted(g.p, g.bl, now)
                   THEN \* skip a blacklisted proxy
                        /\ proxies_tried' = proxies_tried + 1
                        /\ lastCheck' = Check(g.p, proxy_blacklist, now)
                        /\ proxy_blacklist' = g.bl
                        /\ proxy_fail_counts' = g.fc
                        /\ UNCHANGED <<pc, page, all_products, fetched, delays,
                                       sleeps, failed, lastReq, callVia,
                                       clean, why, lastResult>>
                   ELSE LET bl1 == ExpireBl(g.p, g.bl, now)
                            fc1 == ExpireFc(g.p, g.bl, g.fc, now)
                            blk == CoolingDown(g.p, proxy_blacklist, now)
                        IN  \E o \in Outcomes(page) :
                               /\ lastReq' = ReqEvent(g.p, o, blk)
                               /\ callVia' = Append(callVia, g.p)
                               /\ IF ProxyFailure(o.status)
                                  THEN \* proxy failure: record, try the next
                                       /\ proxy_fail_counts' = RecordFailureFc(g.p, fc1)
                                       /\ proxy_blacklist' = RecordFailureBl(g.p, bl1, fc1, now)
                                       /\ proxies_tried' = proxies_tried + 1
                                       /\ lastCheck' = Check(g.p, proxy_blacklist, now)
                                       /\ clean' = FALSE
                                       /\ UNCHANGED <<pc, page, all_products,
                                                      fetched, delays, sleeps,
                                                      failed, why, lastResult>>
                                  ELSE \* a response: reset the fail count
                                       /\ proxy_fail_counts' = RecordSuccessFc(g.p, fc1)
                                       /\ proxy_blacklist' = bl1
                                       /\ lastResult' = "resp"
                                       /\ lastCheck' = NoCheck
                                       /\ proxies_tried' = proxies_tried
                                       /\ Classify(o)
    /\ UNCHANGED <<config, now, attempt, nfetch, reqAllBl>>

\* scrape_all_products has returned or raised; the scraper is idle again.
Finish ==
    /\ pc \in {"done", "raised"}
    /\ pc' = "idle"
    /\ page' = 1
    /\ attempt' = 0
    /\ proxies_tried' = 0
    /\ all_products' = <<>>
    /\ NoHistory
    /\ UNCHANGED <<pool, health, config, now>>

\* time.time() moves on.
Tick ==
    /\ now < MaxTime
    /\ now' = now + 1
    /\ UNCHANGED <<pool, health, config, pc, locals, hist>>

Next ==
    \/ \E p \in Proxies : AddProxy(p)
    \/ \E p \in Proxies : RemoveProxy(p)
    \/ Start
    \/ PageLoop
    \/ AttemptLoop
    \/ DirectRequest
    \/ ProxyTry
    \/ Finish
    \/ Tick

Spec == Init /\ [][Next]_vars

TypeOK ==
    /\ pc \in {"idle", "page", "attempt", "direct", "proxy", "done", "raised"}
    /\ now \in 1..MaxTime
    /\ Len(raw_proxies) <= Cardinality(Proxies)
    /\ proxy_cycle \in 0..Cardinality(Proxies)

\* ======================================================= properties
\* The records of the pages fetched so far, in the order they were served.
ConcatFetched == Concat([i \in 1..Len(fetched) |-> fetched[i].products])

\* A request has gone out through proxy p in this step.
SentVia(p) == callVia' = Append(callVia, p)

\* No endpoint is configured twice.
NoDuplicates == Cardinality(Range(raw_proxies)) = Len(raw_proxies)

\* C1: when a run meets k non-empty 200 pages followed by an empty 200 page,
\* with no failed request and k < max_pages, it returns exactly the records
\* of pages 1..k, in page order and in within-page order, and it has fetched
\* k + 1 pages.
C1_ConcatUntilEmpty ==
    (pc = "done" /\ why = "empty" /\ clean) =>
        /\ Len(fetched) < max_pages
        /\ \A i \in 1..Len(fetched) : fetched[i].page = i
        /\ all_products = ConcatFetched
        /\ nfetch = Len(fetched) + 1

C1_Witness ==
    /\ pc = "done" /\ why = "empty" /\ clean
    /\ Len(fetched) = 2
    /\ all_products = <<1, 2, 3, 4>>

\* C2: no page beyond max_pages is ever fetched or requested, and a run in
\* which max_pages pages came back non-empty has fetched exactly the pages
\* 1..max_pages, each once, and has stopped because of max_pages.
C2_ExactlyMaxPages ==
    /\ nfetch <= max_pages
    /\ lastReq.page <= max_pages
    /\ (pc = "done" /\ why = "max_pages") => Len(fetched) = max_pages
    /\ (pc = "done" /\ Len(fetched) = max_pages) =>
          /\ why = "max_pages"
          /\ nfetch = max_pages
          /\ \A i \in 1..max_pages : fetched[i].page = i
          /\ lastReq.page = max_pages

C2_Witness ==
    /\ pc = "done" /\ why = "max_pages"
    /\ max_pages = 3
    /\ Len(fetched) = 3
    /\ nfetch = 3

C4_AllBlacklistedSignals ==
    (/\ NoDuplicates
     /\ reqAllBl
     /\ AllBlacklisted(raw_proxies, proxy_blacklist, now)
     /\ lastResult # "pending")
        => lastResult = "ProxyUnavailable"

\* C5 as stated: a run whose attempts for the current page have all failed
\* (transport failure, 429 or 5xx) does not raise, and once over it has
\* returned the records of the earlier pages; with or without proxies
\* (stated for configurations without duplicate endpoints).
C5_FailuresNeverRaise ==
    (NoDuplicates /\ failed # {} /\ pc \in {"done", "raised"}) =>
        (pc = "done" /\ all_products = ConcatFetched)

\* C5 amended: a run that ends on a page-level failure (retries exhausted,
\* unexpected status, 200 without the products key) has returned exactly the
\* records of the earlier pages, and after exhaustion it has slept once per
\* allowed attempt; a run raises only with proxies configured and rotation
\* on, and then it is ProxyUnavailable.
C5_PageFailureReturnsAccumulated ==
    /\ (pc = "done" /\ why \in {"exhausted", "status", "nokey"}) =>
          /\ all_products = ConcatFetched
          /\ Len(fetched) = page - 1
          /\ \A i \in 1..Len(fetched) : fetched[i].page = i
    /\ (pc = "done" /\ why = "exhausted") => Len(sleeps) = max_retries
    /\ pc = "raised" =>
          /\ raw_proxies # <<>>
          /\ rotate_proxies
          /\ lastResult = "ProxyUnavailable"

\* Both proxies failed on the only allowed attempt for page 2.
C5_Witness ==
    /\ pc = "done" /\ why = "exhausted"
    /\ raw_proxies # <<>>
    /\ failed = {TransportError}
    /\ Len(fetched) = 1
    /\ all_products = <<1, 2>>

\* C6: a step raises ProxyUnavailable only if, at that moment, proxies are
\* configured and every one of them is blacklisted.
C6_RaisedOnlyWhenAllBlacklisted ==
    [][(pc # "raised" /\ pc' = "raised") =>
          AllBlacklisted(raw_proxies', proxy_blacklist', now')]_vars

C6_Witness ==
    /\ pc = "raised"
    /\ Len(raw_proxies) = 2
    /\ raw_proxies[1] # raw_proxies[2]
    /\ AllBlacklisted(raw_proxies, proxy_blacklist, now)

\* C7: with a proxy configured no request goes out directly: a direct
\* request, sent or about to be sent, means the configured set is empty.
C7_NeverDirectWithProxies ==
    /\ lastReq.via = Direct => raw_proxies = <<>>
    /\ pc = "direct" => raw_proxies = <<>>

\* A _request call that began with every proxy blacklisted has ended
\* without a response, after requests through proxies only.
C7_Witness ==
    /\ raw_proxies # <<>>
    /\ reqAllBl
    /\ AllBlacklisted(raw_proxies, proxy_blacklist, now)
    /\ lastResult \in {"None", "ProxyUnavailable"}
    /\ lastReq.via \in Proxies

C9_NoKeyStopsAtOnce ==
    (lastReq.page # 0 /\ lastReq.status = 200 /\ ~lastReq.has) =>
        /\ pc = "done"
        /\ why = "nokey"
        /\ lastReq.page = page
        /\ lastReq.attempt = attempt
        /\ Len(sleeps) = attempt - 1
        /\ nfetch = page
        /\ Len(fetched) = page - 1
        /\ all_products = ConcatFetched

\* The key is missing on page 2 with retries and pages to spare.
C9_Witness ==
    /\ pc = "done" /\ why = "nokey"
    /\ page = 2
    /\ attempt < max_retries
    /\ page < max_pages
    /\ all_products = <<1, 2>>

\* C10 as stated: a failed request through a proxy that still had the record
\* of an earlier blacklisting (cooldown over, as it is in use again)
\* blacklists it again at once.
C10_RefailureReblacklists ==
    [][\A p \in Proxies :
          (SentVia(p) /\ ProxyFailure(lastReq'.status) /\ proxy_blacklist[p] # 0)
             => proxy_blacklist'[p] # 0]_vars

\* C10 amended: a failure blacklists the proxy exactly when its count
\* reaches 2, stamped with the time of that failure; the expiry of the
\* cooldown erases the count with the blacklist entry, so the first failure
\* after a cooldown leaves the proxy with count 1 and not blacklisted.
C10_FailureCountResetByExpiry ==
    [][\A p \in Proxies :
          (SentVia(p) /\ ProxyFailure(lastReq'.status)) =>
             IF proxy_blacklist[p] # 0
             THEN proxy_fail_counts'[p] = 1 /\ proxy_blacklist'[p] = 0
             ELSE /\ proxy_fail_counts'[p] = proxy_fail_counts[p] + 1
                  /\ proxy_blacklist'[p] = (IF proxy_fail_counts'[p] >= 2 THEN now ELSE 0)]_vars

\* The only proxy failed twice, sat out its cooldown, and has now failed
\* once more on the third attempt.
C10_Witness ==
    /\ raw_proxies = <<"p1">>
    /\ pc = "proxy" /\ attempt = 3
    /\ failed = {TransportError}
    /\ callVia = <<"p1">>
    /\ ProxyFailure(lastReq.status)
    /\ proxy_fail_counts["p1"] = 1
    /\ proxy_blacklist["p1"] = 0

\* C11: the politeness delay is slept only between two page fetches, so a
\* finished run that fetched m pages has slept at most m - 1 delays, also when
\* it stopped because max_pages was reached.
C11_DelayOnlyBetweenFetches ==
    (pc = "done" /\ nfetch >= 1) => delays <= nfetch - 1

\* A request has just been added to the history.
NewRequest == lastReq' # lastReq /\ lastReq'.page # 0

\* Page n has been fetched with a non-empty products list.
Succeeded(n) == \E i \in 1..Len(fetched) : fetched[i].page = n

\* C12: pages are requested strictly in sequence from page 1: the page of
\* successive requests never decreases nor skips, page n + 1 is requested only
\* after page n returned a non-empty products list, and a page that succeeded
\* is not requested again.
C12_PagesSequential ==
    [][NewRequest =>
          /\ lastReq.page = 0 => lastReq'.page = 1
          /\ lastReq.page # 0 =>
                lastReq'.page \in {lastReq.page, lastReq.page + 1}
          /\ lastReq'.page > 1 => Succeeded(lastReq'.page - 1)
          /\ ~Succeeded(lastReq'.page)
          /\ lastReq'.page = page]_vars

C12_Witness ==
    /\ lastReq.page = 3
    /\ lastReq.attempt = 2
    /\ Succeeded(1) /\ Succeeded(2)
    /\ failed # {}

\* C13: with proxies configured, one call of the request executor sends
\* through at most as many proxies as are configured, and never twice through
\* the same one.
C13_DistinctCandidates ==
    (raw_proxies # <<>> /\ NoDuplicates) =>
        /\ Len(callVia) <= Len(raw_proxies)
        /\ \A i, j \in 1..Len(callVia) : callVia[i] = callVia[j] => i = j

Removal(p) ==
    /\ pc = "idle" /\ pc' = "idle"
    /\ p \in Range(raw_proxies)
    /\ p \notin Range(raw_proxies')

\* C16: remove_proxy(p) takes p out of the configured list and clears its
\* failure count and its blacklist entry, in any state, and leaves the list
\* order and the health records of the other endpoints as they were; an
\* endpoint that is not configured has no health record and is never
\* selected, so an endpoint that is added again starts healthy.
C16_RemoveClearsHealth ==
    [][/\ \A p \in Proxies :
             Removal(p) =>
                /\ raw_proxies' = SelectSeq(raw_proxies, LAMBDA q : q # p)
                /\ proxy_fail_counts'[p] = 0
                /\ proxy_blacklist'[p] = 0
                /\ \A q \in Proxies \ {p} :
                      /\ proxy_fail_counts'[q] = proxy_fail_counts[q]
                      /\ proxy_blacklist'[q] = proxy_blacklist[q]
       /\ \A p \in Proxies \ Range(raw_proxies') :
             /\ proxy_fail_counts'[p] = 0
             /\ proxy_blacklist'[p] = 0
             /\ lastCheck'.p # p
             /\ ~SentVia(p)]_vars

C16_Witness ==
    /\ pc = "idle"
    /\ rotate_proxies
    /\ raw_proxies = <<"p2">>
    /\ proxy_blacklist["p2"] # 0
    /\ proxy_fail_counts["p2"] = 2
    /\ proxy_fail_counts["p1"] = 0
    /\ proxy_blacklist["p1"] = 0

\* C18: whenever a configured proxy is not blacklisted when the request
\* executor is called, the call sends a request through a proxy instead of
\* giving up without sending anything, in both rotation modes.
C18_HealthyProxyIsUsed ==
    (/\ raw_proxies # <<>>
     /\ NoDuplicates
     /\ ~reqAllBl
     /\ lastResult \in {"None", "resp", "ProxyUnavailable"}) => callVia # <<>>

\* C19: one page fetch calls the request executor at most max_retries times,
\* and exactly max_retries times when every attempt was a retryable failure;
\* after the last allowed attempt it gives up with "retries exhausted", and
\* with max_retries = 0 no request is sent at all.
C19_AtMostMaxRetries ==
    /\ attempt <= max_retries
    /\ lastReq.page = page => lastReq.attempt <= attempt
    /\ Len(sleeps) <= attempt
    /\ why = "exhausted" =>
          /\ pc = "done"
          /\ attempt = max_retries
          /\ Len(sleeps) = max_retries
    /\ max_retries = 0 => (lastReq = NoReq /\ fetched = <<>>)

C19_Witness ==
    /\ why = "exhausted"
    /\ max_retries = 3
    /\ attempt = 3
    /\ lastReq.attempt = 3
    /\ failed = {TransportError, 429, 500}

\* C20: the health maps stay consistent: a recorded failure count is 1 or 2,
\* and a proxy has a blacklist entry exactly when its failure count is 2.
C20_HealthMapsConsistent ==
    \A p \in Proxies :
        /\ proxy_fail_counts[p] \in 0..FailThreshold
        /\ proxy_blacklist[p] # 0 <=> proxy_fail_counts[p] = FailThreshold

C20_Witness ==
    /\ raw_proxies = <<"p1", "p2">>
    /\ proxy_fail_counts["p1"] = 2 /\ proxy_blacklist["p1"] # 0
    /\ proxy_fail_counts["p2"] = 1 /\ proxy_blacklist["p2"] = 0

\* The endpoint that follows p in the configured order, cyclically.
NextInOrder(p) ==
    LET i == CHOOSE n \in 1..Len(raw_proxies) : raw_proxies[n] = p
    IN  raw_proxies[(i % Len(raw_proxies)) + 1]

\* Two selections in a row within one _request call: the turn that follows a
\* failed candidate picks the next one.
NextSelection ==
    /\ pc = "proxy" /\ pc' = "proxy"
    /\ lastCheck.p # None
    /\ lastCheck'.p # None
    /\ proxies_tried' = proxies_tried + 1

\* C15: with rotation requested and endpoints configured, through the
\* constructor or through add_proxy, successive selections with no endpoint
\* blacklisted go through the configured order cyclically; with rotation not
\* requested every selection returns the first configured endpoint.
C15_RoundRobinHoweverConfigured ==
    [][(NextSelection /\ NoDuplicates /\ proxy_blacklist = NoHealth) =>
          /\ rotate_requested => lastCheck'.p = NextInOrder(lastCheck.p)
          /\ ~rotate_requested => lastCheck'.p = raw_proxies[1]]_vars

\* C17 as claimed: a blacklist entry blocks its proxy only while its age is
\* below the cooldown; at the instant the age equals the cooldown the proxy
\* is no longer blacklisted.
C17_NotBlacklistedAtExpiry ==
    lastCheck.p # None =>
        (lastCheck.blocked <=>
            (lastCheck.age >= 0 /\ lastCheck.age < proxy_cooldown))

\* C17: _is_blacklisted answers true iff the proxy has a blacklist entry
\* whose age (now minus the time of the blacklisting failure) is at most the
\* cooldown; the entry is kept while it blocks, and is removed together with
\* the failure count by the first call that finds it older than the cooldown.
C17_BlacklistedThroughCooldown ==
    lastCheck.p # None =>
        /\ lastCheck.blocked <=>
              (lastCheck.age >= 0 /\ lastCheck.age <= proxy_cooldown)
        /\ lastCheck.blocked => proxy_blacklist[lastCheck.p] # 0
        /\ lastCheck.age > proxy_cooldown =>
              /\ proxy_blacklist[lastCheck.p] = 0
              /\ proxy_fail_counts[lastCheck.p] = 1

C17_Witness ==
    /\ pc = "proxy"
    /\ lastCheck.p = "p1"
    /\ lastCheck.age = proxy_cooldown
    /\ lastCheck.blocked
    /\ callVia = <<>>

====
